---- MODULE Spec2Model ----
(***************************************************************************)
(* A model of server.js (src/unnamed/part_000): the Express server of a    *)
(* small document store.  The state is the MySQL database (users and       *)
(* documents tables), the uploads directory, the process-wide pool handle, *)
(* the start-up sequence, the wall clock, and the HTTP requests in flight  *)
(* (one per client, each suspended at one of its awaits).                  *)
(*                                                                         *)
(* Text values are sequences of one-character strings; the empty sequence  *)
(* is JavaScript's falsy "" / undefined and SQL's NULL.  The clock counts  *)
(* hours.                                                                  *)
(***************************************************************************)
EXTENDS Integers, Sequences, FiniteSets, TLC

-----------------------------------------------------------------------------
(* Bounds of the model *)

\* files multer may write
MaxUploads == 2
\* the same, in the specifications that are not about documents
FewUploads == 1
\* the same, where one client uploads as either user
ListUploads == 3
\* hours the clock advances in one step
TickHours == 6
\* the hour after which the clock stops, where time matters
MaxClock == 24
\* the same, where only the order of uploads matters
MaxDocClock == 6

(* Program constants *)

\* expiresIn: "12h"
TokenTTL == 12
\* LIMIT 200
SearchLimit == 200

JWT_SECRET == "change_this_secret_in_env"

\* the clients: each has at most one request in flight
Solo == {1}
Pair == {1, 2}
Clients == Pair

-----------------------------------------------------------------------------
(* Text *)

\* The tables are utf8mb4 with the character set's default collation, which
\* is case-insensitive: =, LIKE and the UNIQUE index compare folded text.
FoldChar(ch) == IF ch = "A" THEN "a" ELSE IF ch = "R" THEN "r" ELSE ch

Fold(s) == [i \in 1..Len(s) |-> FoldChar(s[i])]

SqlEq(x, y) == Fold(x) = Fold(y)

\* x LIKE pat: % matches any run of characters, _ any one character
RECURSIVE Like(_, _)
Like(s, pat) ==
    IF pat = <<>> THEN s = <<>>
    ELSE IF Head(pat) = "%"
         THEN Like(s, Tail(pat)) \/ (s # <<>> /\ Like(Tail(s), pat))
    ELSE IF s = <<>> THEN FALSE
    ELSE /\ (Head(pat) = "_" \/ FoldChar(Head(s)) = FoldChar(Head(pat)))
         /\ Like(Tail(s), Tail(pat))

\* a || b
OrElse(a, b) == IF a # <<>> THEN a ELSE b

\* String(n) of a non-negative integer: its decimal digits
RECURSIVE String(_)
String(n) ==
    IF n < 10 THEN <<n>> ELSE Append(String(n \div 10), n % 10)

-----------------------------------------------------------------------------
(* bcrypt and jsonwebtoken *)

\* bcrypt.hash(password, 10): a one-way hash (the salt is left out: compare
\* does not depend on it)
BcryptHash(password) == [alg |-> "bcrypt", cost |-> 10, of |-> password]

BcryptCompare(password, hash) == hash = BcryptHash(password)

NoToken == [id |-> 0, email |-> <<>>, iat |-> 0, exp |-> 0, key |-> "none"]

\* jwt.sign({id, email}, secret, {expiresIn: "12h"}) at time now
JwtSign(id, email, secret, now) ==
    [id |-> id, email |-> email, iat |-> now, exp |-> now + TokenTTL, key |-> secret]

\* The characters of a header: a space, or a word (a scheme name, a token,
\* anything else without a space in it)
Sp == [sp |-> TRUE, word |-> "", jwt |-> NoToken]
Word(w) == [sp |-> FALSE, word |-> w, jwt |-> NoToken]
Jwt(t) == [sp |-> FALSE, word |-> "jwt", jwt |-> t]

\* header.split(" ")
RECURSIVE Split(_)
Split(h) ==
    IF h = <<>> THEN << <<>> >>
    ELSE LET rest == Split(Tail(h))
         IN  IF Head(h).sp THEN << <<>> >> \o rest
             ELSE << <<Head(h)>> \o Head(rest) >> \o Tail(rest)

\* faulty variant: jwt.verify with ignoreExpiration
JwtVerifiesNoExpiry(token, secret, now) ==
    /\ Len(token) = 1
    /\ token[1].word = "jwt"
    /\ token[1].jwt.key = secret

\* jwt.verify(token, secret) at time now does not throw
JwtVerifies(token, secret, now) ==
    /\ Len(token) = 1
    /\ token[1].word = "jwt"
    /\ token[1].jwt.key = secret
    /\ now < token[1].jwt.exp

\* faulty variant: authMiddleware testing parts.length < 2
AuthOutcomeAtLeastTwo(header, now) ==
    IF header = <<>> THEN "Missing auth"
    ELSE LET parts == Split(header)
         IN  IF Len(parts) < 2 THEN "Bad auth"
             ELSE IF JwtVerifies(parts[2], JWT_SECRET, now) THEN "next"
             ELSE "Invalid token"

\* authMiddleware: the outcome for a header at time now
AuthOutcome(header, now) ==
    IF header = <<>> THEN "Missing auth"
    ELSE LET parts == Split(header)
         IN  IF Len(parts) # 2 THEN "Bad auth"
             ELSE IF JwtVerifies(parts[2], JWT_SECRET, now) THEN "next"
             ELSE "Invalid token"

\* req.user.id after a successful authMiddleware
AuthUserId(header) == Split(header)[2][1].jwt.id

-----------------------------------------------------------------------------
VARIABLES
    clock,       \* hours since the process started
    dbUp,        \* whether the MySQL server answers
    tables,      \* whether the users and documents tables exist
    pool,        \* the pool handle: "undefined" or "pool"
    boot,        \* where the start-up sequence stands
    initError,   \* whether initPool's catch has run
    users,       \* the rows of users
    docs,        \* the rows of documents
    blobs,       \* the files in UPLOAD_DIR
    nextUserId,  \* AUTO_INCREMENT of users
    nextDocId,   \* AUTO_INCREMENT of documents
    nextBlob,    \* the next name multer's filename generates
    req,         \* per client: its request in flight
    tok,         \* per client: the token it holds
    resp,        \* the response sent by the step just taken, if any
    gate,        \* the header authMiddleware saw in the step just taken, if any
    signedUp     \* per email: what a successful signup returned (history)

vars == <<clock, dbUp, tables, pool, boot, initError, users, docs, blobs,
          nextUserId, nextDocId, nextBlob, req, tok, resp, gate, signedUp>>

dbVars == <<users, docs, nextUserId, nextDocId>>
envVars == <<clock, dbUp>>
bootVars == <<tables, pool, boot, initError>>
fsVars == <<blobs, nextBlob>>

NoUser == [id |-> 0, name |-> <<>>, email |-> <<>>, password_hash |-> BcryptHash(<<>>)]

NoDoc == [id |-> 0, user_id |-> 0, document_name |-> <<>>, document_type |-> <<>>,
          document_date |-> <<>>, file_path |-> 0, original_filename |-> <<>>,
          created_at |-> 0]

Idle == [op |-> "none", pc |-> "idle", name |-> <<>>, email |-> <<>>,
         password |-> <<>>, user |-> NoUser, userId |-> 0, hasFile |-> FALSE,
         meta |-> NoDoc, path |-> 0, doc |-> NoDoc]

\* a response, with the request's inputs it answers (sent is the email a login
\* sent, email the one in the body); for a successful delete rows holds the row
\* the request had selected
NoResp == [c |-> 0, op |-> "none", status |-> 0, error |-> "", id |-> 0,
           email |-> <<>>, name |-> <<>>, token |-> NoToken, rows |-> <<>>,
           db_connected |-> FALSE, q |-> <<>>, type |-> <<>>, date |-> <<>>,
           password |-> <<>>, sent |-> <<>>]

NoGate == [c |-> 0, op |-> "none", header |-> <<>>, outcome |-> "none",
           verifyCalled |-> FALSE]

Reply(c, op, status, error) ==
    [NoResp EXCEPT !.c = c, !.op = op, !.status = status, !.error = error]

\* jwt.verify is called on the way to "next" and to "Invalid token" only
Gate(c, op, header) ==
    LET outcome == AuthOutcome(header, clock)
    IN  [c |-> c, op |-> op, header |-> header, outcome |-> outcome,
         verifyCalled |-> outcome \in {"next", "Invalid token"}]

-----------------------------------------------------------------------------
(* The database *)

\* what pool.query(...) comes to: a TypeError when pool is undefined, a
\* rejected promise when the server or the table is not there
PoolQuery ==
    IF pool = "undefined" THEN "TypeError"
    ELSE IF ~dbUp THEN "ECONNREFUSED"
    ELSE IF ~tables THEN "ER_NO_SUCH_TABLE"
    ELSE "ok"

\* pool.getConnection() and conn.ping()
PoolPing == pool = "pool" /\ dbUp

\* faulty variant: email without its UNIQUE index
NoUniqueIndex(email) == FALSE

\* email VARCHAR(255) UNIQUE
DuplicateEmail(email) == \E u \in users : SqlEq(u.email, email)

\* faulty variant: SELECT * FROM users
UsersOfAnyEmail(email) == users

\* SELECT * FROM users WHERE email = ?
UsersByEmail(email) == {u \in users : SqlEq(u.email, email)}

\* SELECT * FROM documents WHERE id = ?
DocsById(id) == {d \in docs : d.id = id}

\* DELETE FROM documents WHERE id = ?
DocsWithout(id) == {d \in docs : d.id # id}

-----------------------------------------------------------------------------
Init ==
    /\ clock = 0
    /\ dbUp \in BOOLEAN
    /\ tables = FALSE
    /\ pool = "undefined"
    /\ boot = "createPool"
    /\ initError = FALSE
    /\ users = {}
    /\ docs = {}
    /\ blobs = {}
    /\ nextUserId = 1
    /\ nextDocId = 1
    /\ nextBlob = 1
    /\ req = [c \in Clients |-> Idle]
    /\ tok = [c \in Clients |-> NoToken]
    /\ resp = NoResp
    /\ gate = NoGate
    /\ signedUp = <<>>

-----------------------------------------------------------------------------
(* The environment *)

Tick ==
    /\ clock' = clock + TickHours
    /\ resp' = NoResp
    /\ gate' = NoGate
    /\ UNCHANGED <<dbUp, bootVars, dbVars, fsVars, req, tok, signedUp>>

DbDown ==
    /\ dbUp
    /\ dbUp' = FALSE
    /\ resp' = NoResp
    /\ gate' = NoGate
    /\ UNCHANGED <<clock, bootVars, dbVars, fsVars, req, tok, signedUp>>

DbBack ==
    /\ ~dbUp
    /\ dbUp' = TRUE
    /\ resp' = NoResp
    /\ gate' = NoGate
    /\ UNCHANGED <<clock, bootVars, dbVars, fsVars, req, tok, signedUp>>

-----------------------------------------------------------------------------
(* Start-up *)

\* initPool up to its first await: mysql.createPool returns a handle without
\* connecting, or throws
CreatePool ==
    /\ boot = "createPool"
    /\ \E created \in BOOLEAN :
          /\ pool' = IF created THEN "pool" ELSE "undefined"
          /\ boot' = IF created THEN "ping" ELSE "initDone"
          /\ initError' = ~created
    /\ resp' = NoResp
    /\ gate' = NoGate
    /\ UNCHANGED <<envVars, tables, dbVars, fsVars, req, tok, signedUp>>

\* initPool's quick test
PingPool ==
    /\ boot = "ping"
    /\ initError' = ~PoolPing
    /\ boot' = "initDone"
    /\ resp' = NoResp
    /\ gate' = NoGate
    /\ UNCHANGED <<envVars, tables, pool, dbVars, fsVars, req, tok, signedUp>>

\* if (pool) await ensureTables()
EnsureTables ==
    /\ boot = "initDone"
    /\ tables' = (tables \/ (pool = "pool" /\ dbUp))
    /\ boot' = "done"
    /\ resp' = NoResp
    /\ gate' = NoGate
    /\ UNCHANGED <<envVars, pool, initError, dbVars, fsVars, req, tok, signedUp>>

\* the server takes requests once the module has loaded
Listening == boot # "createPool"

CanStart(c) == Listening /\ req[c].pc = "idle"

-----------------------------------------------------------------------------
(* GET /api/health *)

\* faulty variant: health reporting whether the pool handle is set
HealthBodyCached == [NoResp EXCEPT !.op = "health", !.status = 200,
                                   !.db_connected = (pool = "pool")]

HealthBody == [NoResp EXCEPT !.op = "health", !.status = 200,
                             !.db_connected = PoolPing,
                             !.error = IF PoolPing THEN ""
                                       ELSE IF pool = "pool" THEN "ECONNREFUSED"
                                       ELSE "no-db-pool"]

Health(c) ==
    /\ CanStart(c)
    /\ resp' = [HealthBody EXCEPT !.c = c]
    /\ gate' = NoGate
    /\ UNCHANGED <<envVars, bootVars, dbVars, fsVars, req, tok, signedUp>>

-----------------------------------------------------------------------------
(* POST /api/signup *)

Names == {<<>>, <<"n">>}
Emails == {<<"a">>, <<"b">>}
Passwords == {<<"p">>, <<"q">>}

\* up to the await of bcrypt.hash
SignupStart(c) ==
    /\ CanStart(c)
    /\ \E name \in {<<"n">>}, email \in Emails \cup {<<>>}, password \in {<<>>, <<"p">>} :
          IF email = <<>> \/ password = <<>>
          THEN /\ resp' = Reply(c, "signup", 400, "email/password required")
               /\ req' = req
          ELSE /\ resp' = NoResp
               /\ req' = [req EXCEPT ![c] = [Idle EXCEPT !.op = "signup", !.pc = "insert",
                                                        !.name = name, !.email = email,
                                                        !.password = password]]
    /\ gate' = NoGate
    /\ UNCHANGED <<envVars, bootVars, dbVars, fsVars, tok, signedUp>>

\* the error INSERT INTO users ends with, or "ok"
SignupInsertError(email) ==
    IF PoolQuery # "ok" THEN PoolQuery
    ELSE IF DuplicateEmail(email) THEN "ER_DUP_ENTRY"
    ELSE "ok"

\* the catch of the signup handler
SignupCatch(c, err) ==
    IF err = "ER_DUP_ENTRY" THEN Reply(c, "signup", 400, "User already exists")
    ELSE Reply(c, "signup", 500, "internal")

\* INSERT INTO users, jwt.sign, res.json
SignupInsert(c) ==
    /\ req[c].op = "signup" /\ req[c].pc = "insert"
    /\ LET r == req[c]
           err == SignupInsertError(r.email)
           id == nextUserId
           token == JwtSign(id, r.email, JWT_SECRET, clock)
       IN  IF err = "ok"
           THEN /\ users' = users \cup {[id |-> id, name |-> r.name, email |-> r.email,
                                         password_hash |-> BcryptHash(r.password)]}
                /\ nextUserId' = nextUserId + 1
                /\ resp' = [Reply(c, "signup", 200, "") EXCEPT
                               !.token = token, !.id = id, !.email = r.email,
                               !.password = r.password]
                /\ tok' = [tok EXCEPT ![c] = token]
                /\ signedUp' = Append(signedUp, [id |-> id, email |-> r.email,
                                                 password |-> r.password])
           ELSE /\ resp' = [SignupCatch(c, err) EXCEPT !.email = r.email]
                /\ UNCHANGED <<users, nextUserId, tok, signedUp>>
    /\ req' = [req EXCEPT ![c] = Idle]
    /\ gate' = NoGate
    /\ UNCHANGED <<envVars, bootVars, docs, nextDocId, fsVars>>

-----------------------------------------------------------------------------
(* POST /api/login *)

\* SELECT * FROM users WHERE email = ?, up to the await of bcrypt.compare
LoginSelect(c) ==
    /\ CanStart(c)
    /\ \E email \in Emails, password \in Passwords :
          IF PoolQuery # "ok"
          THEN /\ resp' = [Reply(c, "login", 500, "internal") EXCEPT
                              !.sent = email, !.password = password]
               /\ req' = req
          ELSE IF UsersByEmail(email) = {}
          THEN /\ resp' = [Reply(c, "login", 400, "invalid") EXCEPT
                              !.sent = email, !.password = password]
               /\ req' = req
          ELSE /\ resp' = NoResp
               /\ \E u \in UsersByEmail(email) :
                     req' = [req EXCEPT ![c] = [Idle EXCEPT !.op = "login", !.pc = "compare",
                                                             !.email = email,
                                                             !.password = password,
                                                             !.user = u]]
    /\ gate' = NoGate
    /\ UNCHANGED <<envVars, bootVars, dbVars, fsVars, tok, signedUp>>

\* bcrypt.compare, jwt.sign, res.json
LoginCompare(c) ==
    /\ req[c].op = "login" /\ req[c].pc = "compare"
    /\ LET r == req[c]
           token == JwtSign(r.user.id, r.user.email, JWT_SECRET, clock)
       IN  IF BcryptCompare(r.password, r.user.password_hash)
           THEN /\ resp' = [Reply(c, "login", 200, "") EXCEPT
                               !.token = token, !.id = r.user.id, !.email = r.user.email,
                               !.name = r.user.name, !.sent = r.email,
                               !.password = r.password]
                /\ tok' = [tok EXCEPT ![c] = token]
           ELSE /\ resp' = [Reply(c, "login", 400, "invalid") EXCEPT
                               !.sent = r.email, !.password = r.password]
                /\ tok' = tok
    /\ req' = [req EXCEPT ![c] = Idle]
    /\ gate' = NoGate
    /\ UNCHANGED <<envVars, bootVars, dbVars, fsVars, signedUp>>

-----------------------------------------------------------------------------
(* The headers a client may send, built from the token it holds *)

Forged(t) == [t EXCEPT !.key = "forged"]

\* the client's token as it got it, after a scheme name
Bearer(c) == <<Word("Bearer"), Sp, Jwt(tok[c])>>

\* no header, or the token
PlainHeaders(c) == { <<>>, Bearer(c) }

\* the same and the ill-formed and forged ones
Headers(c) ==
    { <<>>,
      Bearer(c),
      <<Sp, Jwt(tok[c])>>,
      <<Jwt(tok[c])>>,
      <<Word("Bearer"), Sp, Sp, Jwt(tok[c])>>,
      <<Word("Bearer"), Sp, Jwt(tok[c]), Sp, Word("x")>>,
      <<Word("Bearer"), Sp, Jwt(Forged(tok[c]))>> }

\* the 401 of authMiddleware
Unauthorized(c, op, outcome) == Reply(c, op, 401, outcome)

-----------------------------------------------------------------------------
(* POST /api/upload *)

\* the multipart fields a client may send with a file named "R": no
\* document_name, a type and a date
UploadFields ==
    { [document_name |-> <<>>, document_type |-> <<"T">>, document_date |-> <<"d">>,
       originalname |-> <<"R">>] }

\* authMiddleware, up to multer's handling of the body
UploadAuth(c, headers) ==
    /\ CanStart(c)
    /\ \E header \in headers, hasFile \in BOOLEAN, f \in UploadFields :
          /\ gate' = Gate(c, "upload", header)
          /\ IF gate'.outcome # "next"
             THEN /\ resp' = Unauthorized(c, "upload", gate'.outcome)
                  /\ req' = req
             ELSE /\ resp' = NoResp
                  /\ req' = [req EXCEPT ![c] =
                               [Idle EXCEPT !.op = "upload", !.pc = "multer",
                                            !.userId = AuthUserId(header),
                                            !.hasFile = hasFile,
                                            !.meta = [NoDoc EXCEPT
                                                !.document_name = f.document_name,
                                                !.document_type = f.document_type,
                                                !.document_date = f.document_date,
                                                !.original_filename = f.originalname]]]
    /\ UNCHANGED <<envVars, bootVars, dbVars, fsVars, tok, signedUp>>

\* faulty variant: the file is not on the disk when multer hands over
NoDiskStorage(name) == blobs

\* multer.diskStorage: UPLOAD_DIR with the file written under name
DiskStorage(name) == blobs \cup {name}

\* upload.single("file"): the file is written under a name of its own
\* (Date.now() + "-" + a random number); then the handler up to its await
UploadMulter(c) ==
    /\ req[c].op = "upload" /\ req[c].pc = "multer"
    /\ IF req[c].hasFile
       THEN /\ blobs' = DiskStorage(nextBlob)
            /\ nextBlob' = nextBlob + 1
            /\ req' = [req EXCEPT ![c].pc = "insert", ![c].path = nextBlob]
            /\ resp' = NoResp
       ELSE /\ resp' = Reply(c, "upload", 400, "file required")
            /\ req' = [req EXCEPT ![c] = Idle]
            /\ UNCHANGED fsVars
    /\ gate' = NoGate
    /\ UNCHANGED <<envVars, bootVars, dbVars, tok, signedUp>>

\* the error INSERT INTO documents ends with, or "ok"
UploadInsertError(userId) ==
    IF PoolQuery # "ok" THEN PoolQuery
    ELSE IF \A u \in users : u.id # userId THEN "ER_NO_REFERENCED_ROW"
    ELSE "ok"

\* the row the handler inserts
UploadRow(r, id, now) ==
    [id |-> id, user_id |-> r.userId,
     document_name |-> OrElse(r.meta.document_name, r.meta.original_filename),
     document_type |-> OrElse(r.meta.document_type, <<>>),
     document_date |-> OrElse(r.meta.document_date, <<>>),
     file_path |-> r.path,
     original_filename |-> r.meta.original_filename,
     created_at |-> now]

\* INSERT INTO documents, res.json
UploadInsert(c) ==
    /\ req[c].op = "upload" /\ req[c].pc = "insert"
    /\ IF UploadInsertError(req[c].userId) = "ok"
       THEN /\ docs' = docs \cup {UploadRow(req[c], nextDocId, clock)}
            /\ nextDocId' = nextDocId + 1
            /\ resp' = [Reply(c, "upload", 200, "") EXCEPT !.id = nextDocId]
       ELSE /\ resp' = Reply(c, "upload", 500, "upload failed")
            /\ UNCHANGED <<docs, nextDocId>>
    /\ req' = [req EXCEPT ![c] = Idle]
    /\ gate' = NoGate
    /\ UNCHANGED <<envVars, bootVars, users, nextUserId, fsVars, tok, signedUp>>

-----------------------------------------------------------------------------
(* GET /api/mydocs *)

\* the orders ORDER BY created_at DESC may return the rows of S in: rows with
\* the same created_at come in any order
OrderByCreatedDesc(S) ==
    { s \in [1..Cardinality(S) -> S] :
        /\ \A i, j \in 1..Cardinality(S) : i # j => s[i] # s[j]
        /\ \A i, j \in 1..Cardinality(S) : i < j => s[i].created_at >= s[j].created_at }

\* faulty variant: SELECT * FROM documents
DocsOfAnyUser(userId) == docs

\* SELECT * FROM documents WHERE user_id = ?
DocsByUser(userId) == {d \in docs : d.user_id = userId}

MyDocs(c, headers) ==
    /\ CanStart(c)
    /\ \E header \in headers :
          /\ gate' = Gate(c, "mydocs", header)
          /\ IF gate'.outcome # "next"
             THEN resp' = Unauthorized(c, "mydocs", gate'.outcome)
             ELSE IF PoolQuery # "ok"
             THEN resp' = [Reply(c, "mydocs", 500, "internal") EXCEPT
                              !.id = AuthUserId(header)]
             ELSE \E rows \in OrderByCreatedDesc(DocsByUser(AuthUserId(header))) :
                     resp' = [Reply(c, "mydocs", 200, "") EXCEPT
                                 !.rows = rows, !.id = AuthUserId(header)]
    /\ UNCHANGED <<envVars, bootVars, dbVars, fsVars, req, tok, signedUp>>

-----------------------------------------------------------------------------
(* DELETE /api/documents/:id *)

\* authMiddleware and SELECT * FROM documents WHERE id = ?
DeleteSelect(c, headers) ==
    /\ CanStart(c)
    /\ \E header \in headers, id \in 1..nextDocId :
          /\ gate' = Gate(c, "delete", header)
          /\ IF gate'.outcome # "next"
             THEN /\ resp' = Unauthorized(c, "delete", gate'.outcome)
                  /\ req' = req
             ELSE IF PoolQuery # "ok"
             THEN /\ resp' = [Reply(c, "delete", 500, "internal") EXCEPT !.id = id]
                  /\ req' = req
             ELSE /\ resp' = NoResp
                  /\ \E d \in IF DocsById(id) = {} THEN {NoDoc} ELSE DocsById(id) :
                        req' = [req EXCEPT ![c] =
                                  [Idle EXCEPT !.op = "delete", !.pc = "selected",
                                               !.userId = AuthUserId(header),
                                               !.path = id, !.doc = d]]
    /\ UNCHANGED <<envVars, bootVars, dbVars, fsVars, tok, signedUp>>

\* faulty variant: String(doc.id) !== String(req.user.id)
NotOwnerById(doc, userId) == String(doc.id) # String(userId)

\* String(doc.user_id) !== String(req.user.id)
NotOwner(doc, userId) == String(doc.user_id) # String(userId)

\* faulty variant: fs.unlinkSync outside a try: a failure goes to the handler's catch
UnlinkThrows(unlinked) == IF unlinked THEN "delete" ELSE "catch"

\* try { fs.unlinkSync(...) } catch (e) { /* ignore */ }: where the handler
\* goes on, whether or not the file was removed
UnlinkCatch(unlinked) == "delete"

\* the handler after the SELECT: not found, forbidden, or unlinkSync, which
\* may fail, and on to the DELETE
DeleteUnlink(c) ==
    /\ req[c].op = "delete" /\ req[c].pc = "selected"
    /\ LET r == req[c]
       IN  IF r.doc = NoDoc
           THEN /\ resp' = [Reply(c, "delete", 404, "not found") EXCEPT !.id = r.path]
                /\ req' = [req EXCEPT ![c] = Idle]
                /\ blobs' = blobs
           ELSE IF NotOwner(r.doc, r.userId)
           THEN /\ resp' = [Reply(c, "delete", 403, "forbidden") EXCEPT !.id = r.path]
                /\ req' = [req EXCEPT ![c] = Idle]
                /\ blobs' = blobs
           ELSE \E unlinked \in BOOLEAN :
                   /\ blobs' = IF unlinked THEN blobs \ {r.doc.file_path} ELSE blobs
                   /\ IF UnlinkCatch(unlinked) = "delete"
                      THEN /\ resp' = NoResp
                           /\ req' = [req EXCEPT ![c].pc = "delete"]
                      ELSE /\ resp' = [Reply(c, "delete", 500, "internal") EXCEPT
                                          !.id = r.path]
                           /\ req' = [req EXCEPT ![c] = Idle]
    /\ gate' = NoGate
    /\ UNCHANGED <<envVars, bootVars, dbVars, nextBlob, tok, signedUp>>

\* DELETE FROM documents WHERE id = ?, res.json
DeleteRow(c) ==
    /\ req[c].op = "delete" /\ req[c].pc = "delete"
    /\ IF PoolQuery = "ok"
       THEN /\ docs' = DocsWithout(req[c].path)
            /\ resp' = [Reply(c, "delete", 200, "") EXCEPT
                           !.id = req[c].path, !.rows = <<req[c].doc>>]
       ELSE /\ docs' = docs
            /\ resp' = [Reply(c, "delete", 500, "internal") EXCEPT !.id = req[c].path]
    /\ req' = [req EXCEPT ![c] = Idle]
    /\ gate' = NoGate
    /\ UNCHANGED <<envVars, bootVars, users, nextUserId, nextDocId, fsVars, tok, signedUp>>

-----------------------------------------------------------------------------
(* GET /api/search *)

Min(a, b) == IF a < b THEN a ELSE b

\* the WHERE clause the handler builds
SearchWhere(d, q, type, date) ==
    /\ q # <<>> => \/ Like(d.document_name, <<"%">> \o q \o <<"%">>)
                   \/ Like(d.original_filename, <<"%">> \o q \o <<"%">>)
    /\ type # <<>> => SqlEq(d.document_type, type)
    /\ date # <<>> => d.document_date = date

\* u.email as uploaded_by of the LEFT JOIN
UploadedBy(d) ==
    IF \E u \in users : u.id = d.user_id
    THEN (CHOOSE u \in users : u.id = d.user_id).email
    ELSE <<>>

\* ORDER BY d.created_at DESC LIMIT 200, each row with its uploaded_by
SearchRows(q, type, date) ==
    { [i \in 1..Min(Len(s), SearchLimit) |-> [doc |-> s[i], uploaded_by |-> UploadedBy(s[i])]] :
        s \in OrderByCreatedDesc({d \in docs : SearchWhere(d, q, type, date)}) }

Queries == {<<>>, <<"R">>, <<"%">>}
Types == {<<>>, <<"T">>}
Dates == {<<>>, <<"d">>}

Search(c) ==
    /\ CanStart(c)
    /\ \E q \in Queries, type \in Types, date \in Dates :
          IF PoolQuery # "ok"
          THEN resp' = [Reply(c, "search", 500, "internal") EXCEPT
                           !.q = q, !.type = type, !.date = date]
          ELSE \E rows \in SearchRows(q, type, date) :
                  resp' = [Reply(c, "search", 200, "") EXCEPT
                              !.rows = rows, !.q = q, !.type = type, !.date = date]
    /\ gate' = NoGate
    /\ UNCHANGED <<envVars, bootVars, dbVars, fsVars, req, tok, signedUp>>

-----------------------------------------------------------------------------
(* Specifications *)

\* The process from its start, one client: the database may be down, the pool
\* may be missing, the tables are created by ensureTables.
NextBoot ==
    \/ DbDown
    \/ DbBack
    \/ CreatePool
    \/ PingPool
    \/ EnsureTables
    \/ \E c \in Solo :
          \/ Health(c)
          \/ SignupStart(c)
          \/ SignupInsert(c)
          \/ LoginSelect(c)
          \/ LoginCompare(c)
          \/ UploadAuth(c, PlainHeaders(c))
          \/ nextBlob <= FewUploads /\ UploadMulter(c)
          \/ UploadInsert(c)
          \/ MyDocs(c, PlainHeaders(c))
          \/ DeleteSelect(c, PlainHeaders(c))
          \/ DeleteUnlink(c)
          \/ DeleteRow(c)
          \/ Search(c)

SpecBoot == Init /\ [][NextBoot]_vars

\* A started process with its pool and tables, and an empty database.
InitBooted ==
    /\ clock = 0
    /\ dbUp = TRUE
    /\ tables = TRUE
    /\ pool = "pool"
    /\ boot = "done"
    /\ initError = FALSE
    /\ users = {}
    /\ docs = {}
    /\ blobs = {}
    /\ nextUserId = 1
    /\ nextDocId = 1
    /\ nextBlob = 1
    /\ req = [c \in Clients |-> Idle]
    /\ tok = [c \in Clients |-> NoToken]
    /\ resp = NoResp
    /\ gate = NoGate
    /\ signedUp = <<>>

\* Two clients sign up and log in concurrently; the database may go down
\* and come back.
NextAccounts ==
    \/ DbDown
    \/ DbBack
    \/ \E c \in Pair :
          \/ SignupStart(c)
          \/ SignupInsert(c)
          \/ LoginSelect(c)
          \/ LoginCompare(c)

SpecAccounts == InitBooted /\ [][NextAccounts]_vars

\* The database two signups leave behind ("a" by client 1, then "b" by
\* client 2), each client holding the token its signup returned.
SeedUsers ==
    { [id |-> 1, name |-> <<"n">>, email |-> <<"a">>, password_hash |-> BcryptHash(<<"p">>)],
      [id |-> 2, name |-> <<"n">>, email |-> <<"b">>, password_hash |-> BcryptHash(<<"p">>)] }

InitSeeded ==
    /\ clock = 0
    /\ dbUp = TRUE
    /\ tables = TRUE
    /\ pool = "pool"
    /\ boot = "done"
    /\ initError = FALSE
    /\ users = SeedUsers
    /\ docs = {}
    /\ blobs = {}
    /\ nextUserId = 3
    /\ nextDocId = 1
    /\ nextBlob = 1
    /\ req = [c \in Clients |-> Idle]
    /\ tok = [c \in Clients |->
                JwtSign(c, IF c = 1 THEN <<"a">> ELSE <<"b">>, JWT_SECRET, 0)]
    /\ resp = NoResp
    /\ gate = NoGate
    /\ signedUp = << [id |-> 1, email |-> <<"a">>, password |-> <<"p">>],
                     [id |-> 2, email |-> <<"b">>, password |-> <<"p">>] >>

\* Two clients, each a user, upload and delete concurrently; the database
\* may go down and come back.
NextDocs ==
    \/ DbDown
    \/ DbBack
    \/ \E c \in Pair :
          \/ UploadAuth(c, PlainHeaders(c))
          \/ nextBlob <= MaxUploads /\ UploadMulter(c)
          \/ UploadInsert(c)
          \/ DeleteSelect(c, PlainHeaders(c))
          \/ DeleteUnlink(c)
          \/ DeleteRow(c)

SpecDocs == InitSeeded /\ [][NextDocs]_vars

\* One client, logging in as either user, uploads, lists and deletes while
\* the clock advances, the database staying up.
NextList ==
    \/ clock < MaxDocClock /\ Tick
    \/ \E c \in Solo :
          \/ LoginSelect(c)
          \/ LoginCompare(c)
          \/ UploadAuth(c, {Bearer(c)})
          \/ nextBlob <= ListUploads /\ UploadMulter(c)
          \/ UploadInsert(c)
          \/ MyDocs(c, {Bearer(c)})
          \/ DeleteSelect(c, {Bearer(c)})
          \/ DeleteUnlink(c)
          \/ DeleteRow(c)

SpecList == InitSeeded /\ [][NextList]_vars

\* One client over the life of its tokens, sending every kind of header.
NextAuth ==
    \/ clock < MaxClock /\ Tick
    \/ \E c \in Solo :
          \/ LoginSelect(c)
          \/ LoginCompare(c)
          \/ UploadAuth(c, Headers(c))
          \/ nextBlob <= FewUploads /\ UploadMulter(c)
          \/ UploadInsert(c)
          \/ MyDocs(c, Headers(c))
          \/ DeleteSelect(c, Headers(c))
          \/ DeleteUnlink(c)
          \/ DeleteRow(c)

SpecAuth == InitSeeded /\ [][NextAuth]_vars

\* GET /api/search over the documents tables it may find: up to two rows,
\* uploaded by the seeded users.
SearchCandidates ==
    { [id |-> id, user_id |-> id, document_name |-> n, document_type |-> t,
       document_date |-> d, file_path |-> id, original_filename |-> <<"f">>,
       created_at |-> 0] :
        id \in {1, 2}, n \in {<<"R">>, <<"x", "r">>}, t \in {<<>>, <<"T">>},
        d \in {<<>>, <<"d">>} }

InitSearch ==
    /\ clock = 0
    /\ dbUp = TRUE
    /\ tables = TRUE
    /\ pool = "pool"
    /\ boot = "done"
    /\ initError = FALSE
    /\ users = SeedUsers
    /\ docs \in {D \in SUBSET SearchCandidates : \A x, y \in D : x.id = y.id => x = y}
    /\ blobs = {d.file_path : d \in docs}
    /\ nextUserId = 3
    /\ nextDocId = 3
    /\ nextBlob = 3
    /\ req = [c \in Clients |-> Idle]
    /\ tok = [c \in Clients |-> NoToken]
    /\ resp = NoResp
    /\ gate = NoGate
    /\ signedUp = <<>>

NextSearch == \E c \in Solo : Search(c)

SpecSearch == InitSearch /\ [][NextSearch]_vars

-----------------------------------------------------------------------------
(* The claims *)

\* C1: a delete by a user who does not own the selected document is answered
\* 403 and leaves the documents table and the uploads directory as they were;
\* a delete by the owner goes on to its DELETE, which (the database
\* answering) is answered 200 with the row gone.
C1_ForeignDeleteForbidden ==
    [][\A c \in Pair :
          LET r == req[c]
          IN  /\ (r.op = "delete" /\ r.pc = "selected" /\ req'[c] # r /\ r.doc # NoDoc) =>
                    IF r.doc.user_id # r.userId
                    THEN /\ resp'.c = c /\ resp'.op = "delete" /\ resp'.status = 403
                         /\ docs' = docs /\ blobs' = blobs
                         /\ req'[c].pc = "idle"
                    ELSE req'[c].pc = "delete"
              /\ (r.op = "delete" /\ r.pc = "delete" /\ req'[c] # r) =>
                    /\ r.doc.user_id = r.userId
                    /\ PoolQuery = "ok" =>
                          /\ resp'.c = c /\ resp'.op = "delete" /\ resp'.status = 200
                          /\ \A d \in docs' : d.id # r.doc.id]_vars

\* a 403 for a document of another user, row and file still there
C1_Witness ==
    /\ resp.op = "delete" /\ resp.status = 403
    /\ \E d \in docs : /\ d.id = resp.id
                       /\ d.user_id # tok[resp.c].id
                       /\ d.file_path \in blobs

\* C2: the users table never holds two rows with one email, no two signups
\* with one email succeed, and a signup whose INSERT finds a row with its
\* email is answered 400 "User already exists" and adds no row.
C2_UniqueEmail ==
    /\ [](\A u1, u2 \in users : u1.email = u2.email => u1 = u2)
    /\ [](\A i, j \in 1..Len(signedUp) : signedUp[i].email = signedUp[j].email => i = j)
    /\ [][\A c \in Pair :
             LET r == req[c]
             IN  (/\ r.op = "signup" /\ r.pc = "insert" /\ req'[c] # r
                  /\ PoolQuery = "ok"
                  /\ \E u \in users : u.email = r.email) =>
                     /\ resp'.c = c /\ resp'.status = 400
                     /\ resp'.error = "User already exists"
                     /\ users' = users]_vars

\* a duplicate-email answer, the email held by exactly one row
C2_Witness ==
    /\ resp.op = "signup" /\ resp.status = 400 /\ resp.error = "User already exists"
    /\ Cardinality({u \in users : u.email = resp.email}) = 1

\* C3: whether or not unlinkSync removed the file, the owner's delete goes on
\* to its DELETE without answering, and the DELETE (the database answering)
\* removes the row and is answered 200 also when the file is still there.
C3_UnlinkFailureIgnored ==
    [][\A c \in Pair :
          LET r == req[c]
          IN  /\ (/\ r.op = "delete" /\ r.pc = "selected" /\ req'[c] # r
                  /\ r.doc # NoDoc /\ r.doc.user_id = r.userId) =>
                     (req'[c].pc = "delete" /\ resp' = NoResp)
              /\ (/\ r.op = "delete" /\ r.pc = "delete" /\ req'[c] # r
                  /\ r.doc.file_path \in blobs
                  /\ PoolQuery = "ok") =>
                     /\ resp'.c = c /\ resp'.status = 200 /\ resp'.error = ""
                     /\ \A d \in docs' : d.id # r.doc.id
                     /\ blobs' = blobs]_vars

\* a 200 for a delete whose file is still in the uploads directory
C3_Witness ==
    /\ resp.op = "delete" /\ resp.status = 200
    /\ resp.rows[1].file_path \in blobs
    /\ \A d \in docs : d.id # resp.id

\* C4: a login with the email and password of a successful signup is answered
\* 200 with the id that signup returned, unless the database does not answer
\* (500).
C4_LoginAfterSignup ==
    (resp.op = "login") =>
        \A i \in 1..Len(signedUp) :
            (signedUp[i].email = resp.sent /\ signedUp[i].password = resp.password) =>
                /\ resp.status \in {200, 500}
                /\ resp.status = 200 => resp.id = signedUp[i].id /\ resp.token.id = signedUp[i].id
                /\ resp.status = 500 => PoolQuery # "ok"

\* such a login, after another signup and an upload
C4_Witness ==
    /\ resp.op = "login" /\ resp.status = 200
    /\ Len(signedUp) = 2
    /\ docs # {}
    /\ \E i \in 1..Len(signedUp) :
          /\ signedUp[i].email = resp.sent
          /\ signedUp[i].password = resp.password

\* a header of a scheme name, a space and a token signed with the secret
Genuine(h) ==
    /\ Len(h) = 3
    /\ ~h[1].sp /\ h[1].word # "jwt"
    /\ h[2].sp
    /\ h[3].word = "jwt" /\ h[3].jwt.key = JWT_SECRET

\* C5: a token a signup or a login issues expires 12 hours after it; a header
\* with such a token passes authMiddleware at every time before the 12 hours
\* are over and is answered 401 at every time after them, whatever happened
\* in between.
C5_TokenLifetime ==
    /\ (resp.op \in {"signup", "login"} /\ resp.status = 200) =>
          /\ resp.token.iat = clock
          /\ resp.token.exp = clock + 12
          /\ resp.token.key = JWT_SECRET
    /\ (gate.op # "none" /\ Genuine(gate.header)) =>
          LET t == gate.header[3].jwt
          IN  /\ clock < t.iat + 12 => gate.outcome = "next" /\ resp.status # 401
              /\ clock > t.iat + 12 =>
                    /\ gate.outcome = "Invalid token"
                    /\ resp.c = gate.c /\ resp.status = 401
                    /\ req[gate.c].pc = "idle"

\* a token a login issued after the start, refused after its expiry
C5_Witness ==
    /\ gate.op # "none" /\ Genuine(gate.header)
    /\ gate.header[3].jwt.iat > 0
    /\ clock > gate.header[3].jwt.exp
    /\ resp.status = 401

\* the spaces in a header
Spaces(h) == Cardinality({i \in 1..Len(h) : h[i].sp})

\* C6: a request without a header, or with a header that has no space or more
\* than one, is answered 401 ("Missing auth" or "Bad auth") without jwt.verify
\* being called and without its handler being run.
C6_MalformedHeader ==
    (gate.op # "none" /\ Spaces(gate.header) # 1) =>
        /\ gate.outcome \in {"Missing auth", "Bad auth"}
        /\ ~gate.verifyCalled
        /\ resp.c = gate.c /\ resp.op = gate.op /\ resp.status = 401
        /\ resp.error = gate.outcome
        /\ req[gate.c].pc = "idle"

\* a header of three parts, one of them a valid token, refused
C6_Witness ==
    /\ gate.outcome = "Bad auth"
    /\ resp.status = 401
    /\ \E i \in 1..Len(gate.header) :
          /\ gate.header[i].jwt.key = JWT_SECRET
          /\ clock < gate.header[i].jwt.exp

\* the answers of a process whose pool is unset or whose database is away
DegradedAnswers ==
    /\ resp.op = "health" =>
          /\ resp.status = 200
          /\ resp.db_connected <=> (pool = "pool" /\ dbUp)
    /\ (/\ resp.op \in {"signup", "login", "upload", "mydocs", "delete", "search"}
        /\ pool = "undefined") =>
          resp.status \in {400, 401, 403, 404, 500}
    /\ (/\ resp.op \in {"signup", "upload", "mydocs", "delete", "search"}
        /\ ~dbUp) =>
          resp.status \in {400, 401, 403, 404, 500}
    /\ (resp.op = "login" /\ ~dbUp /\ resp.status = 200) =>
          \E u \in users : u.id = resp.id /\ SqlEq(u.email, resp.sent)

\* C7 (as amended): health is always answered 200, with db_connected true
\* exactly when the pool is set and the database answers; while the pool is
\* unset or the database does not answer, signup, login, upload, mydocs,
\* delete and search are answered with an error status, but for a login whose
\* SELECT had been answered before the database went away.
C7_Degraded == DegradedAnswers

\* health answering 200, db_connected false, after initPool failed
C7_Witness ==
    /\ initError /\ ~dbUp
    /\ resp.op = "health" /\ resp.status = 200 /\ ~resp.db_connected

\* C7 (as stated): after initPool failed the pool is unset, and the answers
\* are the degraded ones.
C7_PoolUnset ==
    (boot = "done" /\ initError) => (pool = "undefined" /\ DegradedAnswers)

\* C8: mydocs is answered with exactly the rows of the requesting user, each
\* once, newest first; an upload answered 200 has added a row of the uploader
\* and a delete answered 200 has removed the row.
C8_MyDocs ==
    /\ (resp.op = "mydocs" /\ resp.status = 200) =>
          LET rows == resp.rows
              mine == {d \in docs : d.user_id = tok[resp.c].id}
          IN  /\ {rows[i] : i \in 1..Len(rows)} = mine
              /\ Len(rows) = Cardinality(mine)
              /\ \A i \in 1..Len(rows) - 1 : rows[i].created_at >= rows[i + 1].created_at
    /\ (resp.op = "upload" /\ resp.status = 200) =>
          \E d \in docs : /\ d.id = resp.id
                          /\ d.user_id = tok[resp.c].id
                          /\ d.created_at = clock
    /\ (resp.op = "delete" /\ resp.status = 200) =>
          \A d \in docs : d.id # resp.id

\* two rows of the requesting user, the newer first, another user's row left out
C8_Witness ==
    /\ resp.op = "mydocs" /\ resp.status = 200
    /\ Len(resp.rows) = 2
    /\ resp.rows[1].created_at > resp.rows[2].created_at
    /\ \E d \in docs : d.user_id # tok[resp.c].id

\* t is a run of consecutive characters of s
Contains(s, t) ==
    \E i \in 1..(Len(s) - Len(t) + 1) : SubSeq(s, i, i + Len(t) - 1) = t

\* C9: every row search returns satisfies every filter given (q a substring,
\* whatever the case, of the name or of the original filename; type and date
\* equal), and there are at most 200 rows.
C9_SearchFilters ==
    (resp.op = "search" /\ resp.status = 200) =>
        /\ Len(resp.rows) <= 200
        /\ \A i \in 1..Len(resp.rows) :
              LET d == resp.rows[i].doc
              IN  /\ resp.q # <<>> =>
                        \/ Contains(Fold(d.document_name), Fold(resp.q))
                        \/ Contains(Fold(d.original_filename), Fold(resp.q))
                  /\ resp.type # <<>> => d.document_type = resp.type
                  /\ resp.date # <<>> => d.document_date = resp.date

\* C10: an upload refused by authMiddleware writes no file and inserts no
\* row; a file is written only for a request past authMiddleware; a row is
\* inserted only with its file already in the uploads directory; an upload
\* whose INSERT fails is answered 500, its file left where it is, no row added.
C10_UploadOrder ==
    [][/\ (resp'.op = "upload" /\ resp'.status = 401) =>
             /\ blobs' = blobs /\ docs' = docs
             /\ req'[resp'.c].pc = "idle"
       /\ \A b \in blobs' \ blobs :
             \E c \in Pair : /\ req[c].op = "upload" /\ req[c].pc = "multer"
                             /\ req[c].userId \in {u.id : u \in users}
                             /\ req'[c].path = b
       /\ \A d \in docs' \ docs :
             /\ d.file_path \in blobs /\ d.file_path \in blobs'
             /\ \E c \in Pair : req[c].pc = "insert" /\ req[c].path = d.file_path
       /\ (resp'.op = "upload" /\ resp'.status = 500) =>
             /\ docs' = docs /\ blobs' = blobs
             /\ req[resp'.c].path \in blobs'
             /\ \A d \in docs' : d.file_path # req[resp'.c].path]_vars

\* a 500 for an upload, its file in the uploads directory with no row
C10_Witness ==
    /\ resp.op = "upload" /\ resp.status = 500
    /\ \E b \in blobs : \A d \in docs : d.file_path # b

====
